---- MODULE Spec2Model ----
(***************************************************************************)
(* Run lifecycle engine of the control plane (app/api/runs.py,             *)
(* app/api/routes.py) over its relational store.                           *)
(*                                                                         *)
(* The store is PostgreSQL at its default isolation level, READ COMMITTED: *)
(*   - every SQL statement is one atomic step that reads the committed     *)
(*     rows (and the transaction's own writes);                            *)
(*   - NOW() is the start time of the transaction, fixed by its first      *)
(*     statement;                                                          *)
(*   - SELECT ... FOR UPDATE SKIP LOCKED locks the rows it returns until   *)
(*     the transaction ends and passes over rows another transaction has   *)
(*     locked;                                                             *)
(*   - an UPDATE whose WHERE clause matches a row locked by another        *)
(*     transaction waits for that transaction and then re-evaluates its    *)
(*     WHERE clause on the committed row;                                  *)
(*   - an INSERT into pipeline_run_logs takes a key-share lock on the run  *)
(*     it references, so it waits while that run is locked FOR UPDATE.     *)
(* A handler's statements that follow its last read touch only rows the    *)
(* transaction has locked (or rows it inserts), so they are taken together *)
(* with the COMMIT as one step: nothing can observe a state between them.  *)
(* The optional-column shim (_pipeline_run_columns) is modelled with the   *)
(* full schema present.  In claim_run and complete_run its query is the    *)
(* statement that starts the transaction; it reads no run, and the server  *)
(* runs any number of requests at once, so such a transaction may have     *)
(* started at any clock value up to the present one: the action draws its  *)
(* NOW() from 0 .. now.                                                    *)
(***************************************************************************)
EXTENDS Integers, Sequences, FiniteSets, TLC

\* ------------------------------------------------------------- bounds
NumProcs == 2       \* request handlers running concurrently
MaxRuns == 1        \* rows the pipeline_runs table may hold
MaxTime == 2        \* the clock runs 0 .. MaxTime
MaxAppends == 1     \* log entries appended through POST /{run_id}/logs

\* ------------------------------------------------------------- values
NoRun == 0
NoProc == 0
Times == 0 .. MaxTime
NullT == -1                      \* SQL NULL in a timestamp column
Null == "NULL"                   \* SQL NULL / Python None in a text column
Tenants == {"t1", "t2"}
Workers == {"w1", "w2"}
VersionIds == {"v1", "v2"}       \* v2 is an id no pipeline version has
\* Request bodies of POST /api/runs: <<tenant_id, pipeline_version_id, parameters>>.
RunCreateBodies == {<<"t1", "v1", "p0">>, <<"t2", "v1", "p1">>, <<"t1", "v2", "p0">>}
\* Request bodies of POST /api/runs/claim: <<worker_id, tenant_id>> (a worker's
\* WORKER_ID and TENANT_ID are its process environment).
RunClaimBodies == {<<"w1", Null>>, <<"w2", "t2">>, <<"w2", "">>}
\* Request bodies of POST /api/runs/{id}/complete: <<status, error_message>>.
RunCompleteBodies == {<<"SUCCEEDED", Null>>, <<"SUCCEEDED", "boom">>, <<"FAILED", "boom">>}
\* Request bodies of POST /pipeline-versions/{id}/status.
ApproveVersionBodies == {"APPROVED", "DEPRECATED", "RETIRED"}
\* Request bodies of POST /api/runs/reap-stale: <<stale_after_seconds, limit>>.
ReapStaleBodies == {<<1, 100>>, <<0, 0>>, <<2, 1>>}
\* Request bodies of POST /api/runs/{id}/logs: <<level, message, source>>.
LogAppendBodies == {<<"INFO", "Claimed run", "worker">>}
\* reap_stale: limit = max(1, min(body.limit, 500))
ReapLimitMax == 500
Terminal == {"SUCCEEDED", "FAILED", "CANCELLED"}

VARIABLES now, runs, lock, logs, versions, pc, call, resp, worker

vars == <<now, runs, lock, logs, versions, pc, call, resp, worker>>

\* The ids of the table's slots (a slot is a row, or the place of a row to come).
RunIds == DOMAIN runs

\* The request handlers running at once.
Procs == DOMAIN pc

\* ------------------------------------------------------------- rows
\* A slot of the table no INSERT has filled yet.
AbsentRow ==
  [status |-> "ABSENT", tenant_id |-> Null, pipeline_version_id |-> Null,
   trigger_type |-> Null, parameters |-> Null,
   claimed_by |-> Null, claimed_at |-> NullT, started_at |-> NullT,
   finished_at |-> NullT, heartbeat_at |-> NullT, error_message |-> Null,
   created_at |-> NullT, updated_at |-> NullT,
   retry_of_run_id |-> NoRun, root_run_id |-> NoRun]

\* A constructor that stamps started_at at insertion: with it QueuedFieldsNull fails.
PipelineRunStarted(tenant, pv, trigger, params, t) ==
  [AbsentRow EXCEPT !.status = "QUEUED", !.tenant_id = tenant,
                    !.pipeline_version_id = pv, !.trigger_type = trigger,
                    !.parameters = params, !.created_at = t, !.updated_at = t,
                    !.started_at = t]

\* PipelineRun(tenant_id, pipeline_version_id, trigger_type, parameters,
\* status="QUEUED"): every other column takes its default.
PipelineRun(tenant, pv, trigger, params, t) ==
  [AbsentRow EXCEPT !.status = "QUEUED", !.tenant_id = tenant,
                    !.pipeline_version_id = pv, !.trigger_type = trigger,
                    !.parameters = params, !.created_at = t, !.updated_at = t]

Exists(r) == r \in RunIds /\ runs[r].status # "ABSENT"

\* _get_run_full / _run_exists: the committed row, or None.
GetRunFull(r) == IF Exists(r) THEN runs[r] ELSE AbsentRow

Min(a, b) == IF a < b THEN a ELSE b
Max(a, b) == IF a > b THEN a ELSE b

\* ------------------------------------------------------------- locals
NoCall ==
  [op |-> "none", run_id |-> NoRun, worker_id |-> Null, tenant_id |-> Null,
   status |-> Null, error_message |-> Null, pv |-> Null, params |-> Null,
   stale |-> 0, sel |-> <<>>, tnow |-> NullT,
   stale_after_seconds |-> 0, body_limit |-> 0, limit |-> 0,
   before_ts |-> NullT, after_ts |-> NullT, order |-> Null]

\* A response: the HTTP status, its reason (or "ok"), the run it names, for
\* reap_stale the reaped count and the run_ids list, for get_run_logs the logs.
NoResp ==
  [code |-> 0, reason |-> Null, run_id |-> NoRun, run_ids |-> <<>>, reaped |-> 0,
   logs |-> <<>>]

Resp(code, reason) == [NoResp EXCEPT !.code = code, !.reason = reason]

\* What a finished call keeps of its locals: the operation, the run and the
\* worker it named, the status and message it sent, the reap threshold it used,
\* the parameters override of a retry, the query of a log read.
Kept(c) ==
  [c EXCEPT !.tnow = NullT, !.sel = <<>>, !.tenant_id = Null, !.pv = Null,
            !.params = IF c.op = "retry" THEN c.params ELSE Null,
            !.stale_after_seconds = 0, !.body_limit = 0,
            !.limit = IF c.op = "get_run_logs" THEN c.limit ELSE 0]

\* ------------------------------------------------------------- logs
NoMeta == [status |-> Null, stale_after_seconds |-> NullT, last_heartbeat_at |-> NullT]

\* An entry stamped with one fixed tenant instead of the run's: with it
\* LogTenantIsRunTenant fails.
LogEntryFixedTenant(r, tenant, t, level, message, source, meta) ==
  [id |-> 0, run_id |-> r, tenant_id |-> "t1", ts |-> t, level |-> level,
   message |-> message, source |-> source, meta |-> meta]

LogEntry(r, tenant, t, level, message, source, meta) ==
  [id |-> 0, run_id |-> r, tenant_id |-> tenant, ts |-> t, level |-> level,
   message |-> message, source |-> source, meta |-> meta]

\* INSERT INTO pipeline_run_logs: the table is a multiset of entries; id tells
\* entries with equal columns apart (gen_random_uuid()).
InsertLog(L, e) ==
  L \cup {[e EXCEPT !.id = 1 + Cardinality({x \in L : [x EXCEPT !.id = 0] = e})]}

\* ------------------------------------------------------------- worker process
\* The data-plane worker's position in worker.py main and the locals it holds:
\* the run it claimed, the status it is reporting, the index of the current
\* complete attempt, the backoff slept so far in this complete_run call (in
\* half seconds), the status code of the last response complete_run received
\* (0: none), what complete_run returned ("json", "None" or "raised"), and
\* whether a 409 has told it to give the run up. "off": no worker process is part of the system.
NoWorker ==
  [pc |-> "off", run_id |-> NoRun, status |-> Null, attempt |-> 0, slept |-> 0,
   last |-> 0, out |-> Null, gave_up |-> FALSE]

\* ------------------------------------------------------------- init
Init ==
  /\ now = 0
  /\ runs = [r \in 1 .. MaxRuns |-> AbsentRow]
  /\ lock = [r \in 1 .. MaxRuns |-> NoProc]
  /\ logs = {}
  /\ versions = [v \in VersionIds |-> IF v = "v1" THEN "DRAFT" ELSE "MISSING"]
  /\ pc = [p \in 1 .. NumProcs |-> "idle"]
  /\ call = [p \in 1 .. NumProcs |-> NoCall]
  /\ resp = [p \in 1 .. NumProcs |-> NoResp]
  /\ worker = NoWorker

\* A handler returns: its response is kept in resp[p] until the slot is reused.
Finish(p, c, rsp) ==
  /\ pc' = [pc EXCEPT ![p] = "done"]
  /\ call' = [call EXCEPT ![p] = Kept(c)]
  /\ resp' = [resp EXCEPT ![p] = rsp]

Goto(p, label, c) ==
  /\ pc' = [pc EXCEPT ![p] = label]
  /\ call' = [call EXCEPT ![p] = c]
  /\ resp' = resp

\* Rows transaction p holds FOR UPDATE.
Release(p) == [r \in RunIds |-> IF lock[r] = p THEN NoProc ELSE lock[r]]

LockedByOther(p, r) == r \in RunIds /\ lock[r] \notin {NoProc, p}

\* ------------------------------------------------------------- clock
\* The clock counts from the first INSERT into pipeline_runs: nothing before it
\* stores or compares a time.
Tick ==
  /\ now < MaxTime
  /\ \E r \in RunIds : Exists(r)
  /\ now' = now + 1
  /\ UNCHANGED <<runs, lock, logs, versions, pc, call, resp, worker>>

\* ------------------------------------------------------------- catalog
\* routes.py set_pipeline_version_status
SetPipelineVersionStatus(v, s) ==
  /\ versions' = IF versions[v] = "MISSING" THEN versions   \* 404
                 ELSE IF s \notin {"APPROVED", "DEPRECATED", "DRAFT"} THEN versions  \* 400
                 ELSE [versions EXCEPT ![v] = s]
  /\ versions' # versions
  /\ UNCHANGED <<now, runs, lock, logs, pc, call, resp, worker>>

\* routes.py create_run: db.get(PipelineVersion, ...) and the two checks
CreateRunRead(p, tenant, pv, params) ==
  /\ pc[p] = "idle"
  /\ LET c == [NoCall EXCEPT !.op = "create_run", !.tenant_id = tenant,
                             !.pv = pv, !.params = params]
     IN IF versions[pv] = "MISSING" THEN Finish(p, c, Resp(404, "pipeline version not found"))
        ELSE IF versions[pv] # "APPROVED"
             THEN Finish(p, c, Resp(400, "pipeline version must be APPROVED to run"))
        ELSE /\ Cardinality({r \in RunIds : Exists(r)})
                  + Cardinality({q \in Procs : pc[q] = "create_insert"}) < MaxRuns
             /\ Goto(p, "create_insert", c)
  /\ UNCHANGED <<now, runs, lock, logs, versions, worker>>

\* routes.py create_run: db.add(run); db.commit()
CreateRunInsert(p) ==
  /\ pc[p] = "create_insert"
  /\ LET c == call[p]
         r == CHOOSE x \in RunIds : ~Exists(x) /\ \A y \in RunIds : ~Exists(y) => x <= y
     IN /\ runs' = [runs EXCEPT ![r] = PipelineRun(c.tenant_id, c.pv, "manual", c.params, now)]
        /\ Finish(p, [c EXCEPT !.run_id = r], [Resp(200, "ok") EXCEPT !.run_id = r])
  /\ UNCHANGED <<now, lock, logs, versions, worker>>

\* ------------------------------------------------------------- claim
\* The claim SELECT without SKIP LOCKED seeing the rows as they were committed:
\* with it two claims select the same row and ClaimsDisjoint fails.
ClaimCandidatesNoSkip(tf) ==
  {r \in RunIds : runs[r].status = "QUEUED" /\ (tf = Null \/ runs[r].tenant_id = tf)}

\* The claim SELECT taking RUNNING rows too: with it a run is claimed again
\* and ClaimBindingPermanent fails.
ClaimCandidatesReclaim(tf) ==
  {r \in RunIds : /\ runs[r].status \in {"QUEUED", "RUNNING"}
                  /\ (tf = Null \/ runs[r].tenant_id = tf)
                  /\ lock[r] = NoProc}

\* WHERE r.status = 'QUEUED' {tenant_filter} ... FOR UPDATE SKIP LOCKED
ClaimCandidates(tf) ==
  {r \in RunIds : /\ runs[r].status = "QUEUED"
                  /\ (tf = Null \/ runs[r].tenant_id = tf)
                  /\ lock[r] = NoProc}

\* LIMIT 1 without the ORDER BY: with it ClaimTakesOldestOfTenant fails.
OldestAny(S) == S

\* ORDER BY r.created_at ASC LIMIT 1 (rows with equal created_at: either)
Oldest(S) == {r \in S : \A q \in S : runs[r].created_at <= runs[q].created_at}

\* FOR UPDATE: transaction p holds the selected row until it ends.
ClaimLock(p, r) == [lock EXCEPT ![r] = p]

\* runs.py claim_run: with db.begin(): the shim's query (at t), then
\* SELECT r.id ... FOR UPDATE SKIP LOCKED LIMIT 1; if row is None: return
ClaimSelect(p, w, tf, t) ==
  /\ pc[p] = "idle"
  /\ LET c == [NoCall EXCEPT !.op = "claim", !.worker_id = w,
                             !.tenant_id = IF tf = "" THEN Null ELSE tf, !.tnow = t]
         S == ClaimCandidates(c.tenant_id)
     IN IF S = {}
        THEN /\ Finish(p, c, Resp(200, "claimed:false"))
             /\ lock' = lock
        ELSE \E r \in Oldest(S) :
               /\ lock' = ClaimLock(p, r)
               /\ Goto(p, "claim_update", [c EXCEPT !.run_id = r])
  /\ UNCHANGED <<now, runs, logs, versions, worker>>

\* The claim UPDATE without heartbeat_at=NOW(): with it RunningFieldsSet fails.
ClaimedRowNoHeartbeat(row, w, t) ==
  [row EXCEPT !.status = "RUNNING",
              !.started_at = IF row.started_at # NullT THEN row.started_at ELSE t,
              !.claimed_at = t, !.claimed_by = w, !.updated_at = t]

\* UPDATE pipeline_runs SET status='RUNNING', started_at=COALESCE(started_at, NOW()),
\* claimed_at=NOW(), claimed_by=:worker_id, heartbeat_at=NOW(), updated_at=NOW()
ClaimedRow(row, w, t) ==
  [row EXCEPT !.status = "RUNNING",
              !.started_at = IF row.started_at # NullT THEN row.started_at ELSE t,
              !.claimed_at = t, !.claimed_by = w, !.heartbeat_at = t, !.updated_at = t]

\* A claim whose UPDATE stays although the HTTPException left the block: with
\* it ClaimRollsBackOnMissingVersion fails.
ClaimOutcomeCommitted(row, updated, found) == updated

\* What the end of `with db.begin()` does to the claimed row: the UPDATE is
\* committed, or rolled back when the HTTPException leaves the block.
ClaimOutcome(row, updated, found) == IF found THEN updated ELSE row

\* The UPDATE, the SELECT of pipeline_versions, and the end of the transaction.
ClaimUpdate(p) ==
  /\ pc[p] = "claim_update"
  /\ LET c == call[p]
         r == c.run_id
         run == ClaimedRow(runs[r], c.worker_id, c.tnow)
         found == versions[run.pipeline_version_id] # "MISSING"
     IN /\ runs' = [runs EXCEPT ![r] = ClaimOutcome(runs[r], run, found)]
        /\ lock' = Release(p)
        /\ IF found
           THEN Finish(p, c, [Resp(200, "claimed:true") EXCEPT
                                !.run_id = r])
           ELSE Finish(p, c, Resp(409, "pipeline version not found for claimed run"))
  /\ UNCHANGED <<now, logs, versions, worker>>

\* ------------------------------------------------------------- complete
\* The complete UPDATE with WHERE id=:run_id alone: with it a second complete
\* succeeds and CompleteConflictLeavesRow fails.
CompleteMatchesAnyStatus(r) == Exists(r)

\* The complete UPDATE with WHERE id=:run_id AND status IN ('QUEUED','RUNNING'):
\* with it a run is completed that no worker ever claimed and
\* LifecycleRunningAtMostOnce fails.
CompleteMatchesQueued(r) == Exists(r) /\ runs[r].status \in {"QUEUED", "RUNNING"}

\* WHERE id=:run_id AND status='RUNNING'
CompleteMatches(r) == Exists(r) /\ runs[r].status = "RUNNING"

\* The complete UPDATE with error_message=:error_message and no CASE: with it
\* ErrorMessageOnlyOnFailure fails.
CompletedRowKeepsMessage(row, st, em, t) ==
  [row EXCEPT !.status = st, !.finished_at = t, !.heartbeat_at = t,
              !.error_message = em, !.updated_at = t]

\* SET status=:status, finished_at=NOW(), heartbeat_at=NOW(),
\* error_message=CASE WHEN :status='FAILED' THEN :error_message ELSE NULL END, updated_at=NOW()
CompletedRow(row, st, em, t) ==
  [row EXCEPT !.status = st, !.finished_at = t, !.heartbeat_at = t,
              !.error_message = IF st = "FAILED" THEN em ELSE Null,
              !.updated_at = t]

\* runs.py complete_run: with db.begin(): the shim's query (at t), the
\* UPDATE ... RETURNING, then commit, or raise 409 when it returned no row.
CompleteRun(p, r, st, em, t) ==
  /\ pc[p] = "idle"
  /\ ~(CompleteMatches(r) /\ LockedByOther(p, r))
  /\ LET c == [NoCall EXCEPT !.op = "complete", !.run_id = r, !.status = st,
                             !.error_message = em, !.tnow = t]
     IN IF CompleteMatches(r)
        THEN /\ runs' = [runs EXCEPT ![r] = CompletedRow(runs[r], st, em, t)]
             /\ Finish(p, c, [Resp(200, "ok") EXCEPT !.run_id = r])
        ELSE /\ runs' = runs
             /\ Finish(p, c, Resp(409, "run not RUNNING or not found"))
  /\ UNCHANGED <<now, lock, logs, versions, worker>>

\* ------------------------------------------------------------- heartbeat
\* runs.py heartbeat_run: run = _get_run_full(db, run_id) and the three checks
HeartbeatRead(p, r, w) ==
  /\ pc[p] = "idle"
  /\ LET c == [NoCall EXCEPT !.op = "heartbeat", !.run_id = r, !.worker_id = w]
         run == GetRunFull(r)
     IN IF ~Exists(r) THEN Finish(p, c, Resp(404, "run_not_found"))
        ELSE IF run.status # "RUNNING"
             THEN Finish(p, c, Resp(409, "not_running"))
        ELSE IF run.claimed_by # w
             THEN Finish(p, c, Resp(409, "worker_mismatch"))
        ELSE Goto(p, "heartbeat_update", [c EXCEPT !.tnow = now])
  /\ UNCHANGED <<now, runs, lock, logs, versions, worker>>

\* The heartbeat UPDATE with WHERE id = :run_id AND claimed_by = :worker_id:
\* with it HeartbeatOnlyOwnRunning fails.
HeartbeatMatchesAnyStatus(r, w) == Exists(r) /\ runs[r].claimed_by = w

\* WHERE id = :run_id AND status = 'RUNNING' AND claimed_by = :worker_id
HeartbeatMatches(r, w) ==
  Exists(r) /\ runs[r].status = "RUNNING" /\ runs[r].claimed_by = w

\* SET heartbeat_at = NOW(), updated_at = NOW()
HeartbeatRow(row, t) == [row EXCEPT !.heartbeat_at = t, !.updated_at = t]

\* The UPDATE, db.commit(), and the response built from datetime.now().
HeartbeatUpdate(p) ==
  /\ pc[p] = "heartbeat_update"
  /\ LET c == call[p]
         r == c.run_id
     IN /\ ~(HeartbeatMatches(r, c.worker_id) /\ LockedByOther(p, r))
        /\ runs' = IF HeartbeatMatches(r, c.worker_id)
                   THEN [runs EXCEPT ![r] = HeartbeatRow(runs[r], c.tnow)]
                   ELSE runs
        /\ Finish(p, c, [Resp(200, "ok") EXCEPT !.run_id = r])
  /\ UNCHANGED <<now, lock, logs, versions, worker>>

\* ------------------------------------------------------------- cancel
\* runs.py cancel_run: run = _get_run_full(db, run_id) and the two checks
CancelRead(p, r) ==
  /\ pc[p] = "idle"
  /\ LET c == [NoCall EXCEPT !.op = "cancel", !.run_id = r]
         run == GetRunFull(r)
     IN IF ~Exists(r) THEN Finish(p, c, Resp(404, "run_not_found"))
        ELSE IF run.status \notin {"QUEUED", "RUNNING"}
             THEN Finish(p, c, Resp(409, "invalid_state"))
        ELSE Goto(p, "cancel_update", [c EXCEPT !.tnow = now])
  /\ UNCHANGED <<now, runs, lock, logs, versions, worker>>

\* The cancel UPDATE with WHERE id = :run_id alone: with it a cancel that read
\* the run before a complete overwrites SUCCEEDED and TerminalAbsorbing fails.
CancelMatchesAnyStatus(r) == Exists(r)

\* WHERE id = :run_id AND status IN ('QUEUED', 'RUNNING')
CancelMatches(r) == Exists(r) /\ runs[r].status \in {"QUEUED", "RUNNING"}

\* The cancel UPDATE with WHERE status IN ('QUEUED', 'RUNNING') and no id:
\* with it a cancel cancels every live run and CancelOnlyTargetNoDescendants fails.
CancelTargetsNoId(r) == {q \in RunIds : CancelMatches(q)}

\* The rows the cancel UPDATE of run r changes.
CancelTargets(r) == {q \in RunIds : q = r /\ CancelMatches(q)}

\* SET status = 'CANCELLED', finished_at = NOW(), updated_at = NOW(),
\* error_message = 'Cancelled by admin'
CancelledRow(row, t) ==
  [row EXCEPT !.status = "CANCELLED", !.finished_at = t, !.updated_at = t,
              !.error_message = "Cancelled by admin"]

\* The UPDATE, the INSERT of the "Run cancelled" entry, db.commit(), and the
\* response built from the row as re-read.
CancelUpdate(p) ==
  /\ pc[p] = "cancel_update"
  /\ LET c == call[p]
         r == c.run_id
     IN /\ ~LockedByOther(p, r)
        /\ runs' = [q \in RunIds |-> IF q \in CancelTargets(r)
                                     THEN CancelledRow(runs[q], c.tnow)
                                     ELSE runs[q]]
        /\ logs' = InsertLog(logs, LogEntry(r, runs[r].tenant_id, c.tnow, "WARN", "Run cancelled",
                                            "control-plane", [NoMeta EXCEPT !.status = "CANCELLED"]))
        /\ Finish(p, c, [Resp(200, "ok") EXCEPT !.run_id = r])
  /\ UNCHANGED <<now, lock, versions, worker>>

\* ------------------------------------------------------------- reap
\* WHERE status = 'RUNNING' AND (heartbeat_at IS NULL OR heartbeat_at < NOW() - :stale_seconds)
Stale(r, n, t) ==
  /\ runs[r].status = "RUNNING"
  /\ (runs[r].heartbeat_at = NullT \/ runs[r].heartbeat_at < t - n)

\* ... FOR UPDATE SKIP LOCKED
ReapCandidates(n, t) == {r \in RunIds : Stale(r, n, t) /\ lock[r] = NoProc}

\* ORDER BY created_at ASC: the orders of S the database may produce
ByCreatedAt(S) ==
  {f \in [1 .. Cardinality(S) -> S] :
     \A i, j \in 1 .. Cardinality(S) :
       i < j => f[i] # f[j] /\ runs[f[i]].created_at <= runs[f[j]].created_at}

\* The reap UPDATE without finished_at = NOW(): with it TerminalHasFinishedAt fails.
ReapedRowNoFinish(row, n, t) ==
  [row EXCEPT !.status = "FAILED", !.updated_at = t,
              !.error_message = "Stale: no heartbeat for " \o ToString(n) \o "s"]

\* SET status = 'FAILED', finished_at = NOW(), updated_at = NOW(), error_message = :error_message
ReapedRow(row, n, t) ==
  [row EXCEPT !.status = "FAILED", !.finished_at = t, !.updated_at = t,
              !.error_message = "Stale: no heartbeat for " \o ToString(n) \o "s"]

\* The reaper's entry with meta left out: with it ReapMarksAndLogs fails.
ReapLogNoMeta(r, n, t) ==
  LogEntry(r, runs[r].tenant_id, t, "WARN", "Run marked stale by reaper", "control-plane", NoMeta)

\* The entry reap_stale inserts for one row of its SELECT.
ReapLog(r, n, t) ==
  LogEntry(r, runs[r].tenant_id, t, "WARN", "Run marked stale by reaper", "control-plane",
           [NoMeta EXCEPT !.stale_after_seconds = n,
                          !.last_heartbeat_at = runs[r].heartbeat_at])

\* The reap SELECT without FOR UPDATE: with it a complete slips in between the
\* SELECT and the UPDATE and ReapOnlyStaleRunning fails.
ReapLockNone(p, rows) == lock

\* FOR UPDATE: transaction p holds the selected rows until it ends.
ReapLock(p, rows) ==
  [r \in RunIds |-> IF \E i \in 1 .. Len(rows) : rows[i] = r THEN p ELSE lock[r]]

\* The limit guarded from below only: with it a limit of 501 reaches the
\* SELECT and ReapClampsAndLimits fails.
ReapLimitNoCap(lim) == Max(1, lim)

\* limit = max(1, min(body.limit, 500))
ReapLimit(lim) == Max(1, Min(lim, ReapLimitMax))

\* stale_seconds = max(1, body.stale_after_seconds)
ReapStaleSeconds(stale_after_seconds) == Max(1, stale_after_seconds)

\* runs.py reap_stale: the clamps and the SELECT ... LIMIT :limit FOR UPDATE SKIP LOCKED
ReapSelect(p, stale_after_seconds, lim) ==
  /\ pc[p] = "idle"
  /\ LET limit == ReapLimit(lim)
         stale_seconds == ReapStaleSeconds(stale_after_seconds)
         c == [NoCall EXCEPT !.op = "reap_stale", !.stale = stale_seconds, !.tnow = now,
                             !.stale_after_seconds = stale_after_seconds,
                             !.body_limit = lim, !.limit = limit]
         S == ReapCandidates(stale_seconds, now)
     IN \E f \in ByCreatedAt(S) :
          LET rows == SubSeq(f, 1, Min(limit, Len(f)))
          IN IF rows = <<>>
             THEN /\ lock' = lock
                  /\ Finish(p, c, Resp(200, "ok"))
             ELSE /\ lock' = ReapLock(p, rows)
                  /\ Goto(p, "reap_update", [c EXCEPT !.sel = rows])
  /\ UNCHANGED <<now, runs, logs, versions, worker>>

RECURSIVE ReapLogs(_, _, _, _)
ReapLogs(L, rows, n, t) ==
  IF rows = <<>> THEN L
  ELSE ReapLogs(InsertLog(L, ReapLog(Head(rows), n, t)), Tail(rows), n, t)

\* The loop over rows (UPDATE and INSERT for each) and the commit.
ReapUpdate(p) ==
  /\ pc[p] = "reap_update"
  /\ LET c == call[p]
         ids == {c.sel[i] : i \in 1 .. Len(c.sel)}
     IN /\ runs' = [r \in RunIds |-> IF r \in ids THEN ReapedRow(runs[r], c.stale, c.tnow)
                                     ELSE runs[r]]
        /\ logs' = ReapLogs(logs, c.sel, c.stale, c.tnow)
        /\ lock' = Release(p)
        /\ Finish(p, c, [Resp(200, "ok") EXCEPT !.run_ids = c.sel, !.reaped = Len(c.sel)])
  /\ UNCHANGED <<now, versions, worker>>

\* ------------------------------------------------------------- retry
\* runs.py retry_run.  PipelineRun (models/core.py) maps no retry_of_run_id and
\* no root_run_id, so PipelineRun(..., retry_of_run_id=..., root_run_id=...)
\* raises TypeError in the declarative constructor: a request that passes the
\* four checks ends as a server error before anything is added to the session.
\* A status test that lets every finished run through: with it
\* RetryRejectsOtherStates fails.
RetryAllowedAnyTerminal(status) == status \in Terminal

\* if status not in ("FAILED", "CANCELLED"): invalid_state
RetryAllowed(status) == status \in {"FAILED", "CANCELLED"}

\* A version test that only asks for the record: with it
\* RetryRejectsUnapprovedVersion fails.
VersionFound(v) == versions[v] # "MISSING"

\* if pv.status != "APPROVED": pipeline_version_not_approved
VersionApproved(v) == versions[v] = "APPROVED"

RetryRun(p, r, override) ==
  /\ pc[p] = "idle"
  /\ LET c == [NoCall EXCEPT !.op = "retry", !.run_id = r, !.params = override]
         run == GetRunFull(r)
     IN IF ~Exists(r) THEN Finish(p, c, Resp(404, "run_not_found"))
        ELSE IF ~RetryAllowed(run.status)
             THEN Finish(p, c, Resp(409, "invalid_state"))
        ELSE IF versions[run.pipeline_version_id] = "MISSING"
             THEN Finish(p, c, Resp(409, "pipeline_version_not_found"))
        ELSE IF ~VersionApproved(run.pipeline_version_id)
             THEN Finish(p, c, Resp(400, "pipeline_version_not_approved"))
        ELSE Finish(p, c, Resp(500, "TypeError"))
  /\ UNCHANGED <<now, runs, lock, logs, versions, worker>>

\* ------------------------------------------------------------- logs
\* Entries written through append_run_log.
Appended == {e \in logs : e.source \notin {"control-plane"}}

\* runs.py append_run_log: _run_exists, the INSERT ... RETURNING, db.commit()
AppendRunLog(p, r, level, message, source) ==
  /\ pc[p] = "idle"
  /\ LET c == [NoCall EXCEPT !.op = "append_log", !.run_id = r]
     IN IF ~Exists(r)
        THEN /\ logs' = logs
             /\ Finish(p, c, Resp(404, "run_not_found"))
        ELSE /\ Cardinality(Appended) < MaxAppends
             /\ ~LockedByOther(p, r)
             /\ logs' = InsertLog(logs, LogEntry(r, runs[r].tenant_id, now, level, message, source, NoMeta))
             /\ Finish(p, c, [Resp(200, "ok") EXCEPT !.run_id = r])
  /\ UNCHANGED <<now, runs, lock, versions, worker>>

Return(p) ==
  /\ pc[p] = "done"
  /\ pc' = [pc EXCEPT ![p] = "idle"]
  /\ call' = [call EXCEPT ![p] = NoCall]
  /\ resp' = [resp EXCEPT ![p] = NoResp]
  /\ UNCHANGED <<now, runs, lock, logs, versions, worker>>

\* No response is waiting to be delivered.
Quiet == \A p \in Procs : pc[p] # "done"

\* Return touches only the slot of a finished call and nothing reads that slot,
\* so it commutes with every other step: a response is delivered before the
\* next step is taken.
Next ==
  \/ Quiet /\ Tick
  \/ Quiet /\ \E v \in VersionIds, s \in ApproveVersionBodies : SetPipelineVersionStatus(v, s)
  \/ Quiet /\ \E p \in Procs, b \in RunCreateBodies : CreateRunRead(p, b[1], b[2], b[3])
  \/ Quiet /\ \E p \in Procs : CreateRunInsert(p)
  \/ Quiet /\ \E p \in Procs, b \in RunClaimBodies, t \in 0 .. now : ClaimSelect(p, b[1], b[2], t)
  \/ Quiet /\ \E p \in Procs : ClaimUpdate(p)
  \/ Quiet /\ \E p \in Procs, r \in RunIds, b \in RunCompleteBodies, t \in 0 .. now :
                CompleteRun(p, r, b[1], b[2], t)
  \/ Quiet /\ \E p \in Procs, r \in RunIds, w \in Workers : HeartbeatRead(p, r, w)
  \/ Quiet /\ \E p \in Procs : HeartbeatUpdate(p)
  \/ Quiet /\ \E p \in Procs, r \in RunIds : CancelRead(p, r)
  \/ Quiet /\ \E p \in Procs : CancelUpdate(p)
  \/ Quiet /\ \E p \in Procs, b \in ReapStaleBodies : ReapSelect(p, b[1], b[2])
  \/ Quiet /\ \E p \in Procs : ReapUpdate(p)
  \/ Quiet /\ \E p \in Procs, r \in RunIds, o \in {Null, "p1"} : RetryRun(p, r, o)
  \/ Quiet /\ \E p \in Procs, r \in RunIds, b \in LogAppendBodies :
                AppendRunLog(p, r, b[1], b[2], b[3])
  \/ \E p \in Procs : Return(p)

Spec == Init /\ [][Next]_vars
\* ------------------------------------------------------------- properties

\* Handler p returns in this step from a call of operation op.
Returns(p, op) == pc[p] # "done" /\ pc'[p] = "done" /\ call'[p].op = op

\* C2: a run whose status is SUCCEEDED, FAILED or CANCELLED keeps that status
\* in every later step, whichever handlers run and however they interleave.
TerminalAbsorbing ==
  [][\A r \in RunIds : runs[r].status \in Terminal => runs'[r].status = runs[r].status]_vars

\* C2 witness: a cancel that read the run before it was completed ran its UPDATE
\* on the SUCCEEDED row and returned.
TerminalAbsorbingWitness ==
  \E p \in Procs :
    /\ pc[p] = "done" /\ call[p].op = "cancel" /\ resp[p].code = 200
    /\ runs[call[p].run_id].status = "SUCCEEDED"

RunningFieldsSet ==
  \A r \in RunIds :
    runs[r].status = "RUNNING" =>
      /\ runs[r].claimed_at # NullT /\ runs[r].claimed_by # Null
      /\ runs[r].started_at # NullT /\ runs[r].heartbeat_at # NullT
      /\ runs[r].finished_at = NullT

\* C5 witness: a claimed run whose worker has since refreshed its heartbeat.
RunningFieldsSetWitness ==
  \E r \in RunIds :
    /\ runs[r].status = "RUNNING" /\ runs[r].claimed_by = "w2"
    /\ runs[r].heartbeat_at > runs[r].claimed_at

\* C6: a committed row whose status is SUCCEEDED, FAILED or CANCELLED has
\* finished_at set.
TerminalHasFinishedAt ==
  \A r \in RunIds : runs[r].status \in Terminal => runs[r].finished_at # NullT

\* C6 witness: a run the reaper failed (the other ways into a terminal status
\* are reached too: see the witnesses of C2, C7 and C8).
TerminalHasFinishedAtWitness ==
  \E r \in RunIds, p \in Procs :
    /\ pc[p] = "done" /\ call[p].op = "reap_stale" /\ resp[p].run_ids = <<r>>
    /\ runs[r].status = "FAILED" /\ runs[r].finished_at = now

\* C7: a committed row with an error_message is FAILED or CANCELLED.
ErrorMessageOnlyOnFailure ==
  \A r \in RunIds :
    runs[r].error_message # Null => runs[r].status \in {"FAILED", "CANCELLED"}

\* C7 witness: complete(SUCCEEDED, error_message="boom") succeeded and the row
\* holds no error_message.
ErrorMessageOnlyOnFailureWitness ==
  \E p \in Procs :
    /\ pc[p] = "done" /\ call[p].op = "complete" /\ resp[p].code = 200
    /\ call[p].status = "SUCCEEDED" /\ call[p].error_message = "boom"
    /\ runs[call[p].run_id].status = "SUCCEEDED"
    /\ runs[call[p].run_id].error_message = Null

\* C8: a complete on a run that is not RUNNING (or is no run) returns 409 and
\* changes no row and no log entry; a complete on a RUNNING run returns 200.
\* So once a complete has succeeded every further complete returns 409.
CompleteConflictLeavesRow ==
  [][\A p \in Procs :
       Returns(p, "complete") =>
         IF runs[call'[p].run_id].status = "RUNNING"
         THEN resp'[p].code = 200
         ELSE resp'[p].code = 409 /\ runs' = runs /\ logs' = logs]_vars

\* C8 witness: a second complete, with the other status, on a run already
\* SUCCEEDED got 409.
CompleteConflictLeavesRowWitness ==
  \E p \in Procs :
    /\ pc[p] = "done" /\ call[p].op = "complete" /\ resp[p].code = 409
    /\ call[p].status = "FAILED"
    /\ runs[call[p].run_id].status = "SUCCEEDED"

\* C9: a heartbeat changes a row only if, when its UPDATE runs, the run is
\* RUNNING and claimed by the calling worker, and then only heartbeat_at and
\* updated_at; for a missing run it returns 404, for a run not RUNNING 409
\* not_running, for another worker's run 409 worker_mismatch, changing nothing.
HeartbeatOnlyOwnRunning ==
  [][\A p \in Procs :
       Returns(p, "heartbeat") =>
         LET r == call'[p].run_id
             w == call'[p].worker_id
         IN /\ (pc[p] = "idle" /\ ~Exists(r)) =>
                 resp'[p].code = 404 /\ runs' = runs
            /\ (pc[p] = "idle" /\ Exists(r) /\ runs[r].status # "RUNNING") =>
                 resp'[p].code = 409 /\ resp'[p].reason = "not_running" /\ runs' = runs
            /\ (pc[p] = "idle" /\ runs[r].status = "RUNNING" /\ runs[r].claimed_by # w) =>
                 resp'[p].code = 409 /\ resp'[p].reason = "worker_mismatch" /\ runs' = runs
            /\ runs' # runs =>
                 /\ runs[r].status = "RUNNING" /\ runs[r].claimed_by = w
                 /\ runs' = [runs EXCEPT ![r].heartbeat_at = runs'[r].heartbeat_at,
                                         ![r].updated_at = runs'[r].updated_at]]_vars

\* C9 witness: a heartbeat whose UPDATE ran after the run was cancelled left
\* the CANCELLED row's heartbeat_at as the claim set it.
HeartbeatOnlyOwnRunningWitness ==
  \E p \in Procs :
    /\ pc[p] = "done" /\ call[p].op = "heartbeat" /\ resp[p].code = 200
    /\ runs[call[p].run_id].status = "CANCELLED"
    /\ runs[call[p].run_id].heartbeat_at = runs[call[p].run_id].claimed_at
    /\ runs[call[p].run_id].finished_at > runs[call[p].run_id].claimed_at

\* C10: reap_stale changes a row only if, when its SELECT locks it and still
\* when its UPDATE runs, the run is RUNNING with heartbeat_at null or older than
\* NOW() minus the threshold; its SELECT changes no row; while it holds a row
\* no heartbeat, complete or cancel changes that row.
ReapOnlyStaleRunning ==
  [][\A p \in Procs :
       /\ (pc[p] = "idle" /\ pc'[p] # "idle" /\ call'[p].op = "reap_stale") =>
            /\ runs' = runs
            /\ \A i \in 1 .. Len(call'[p].sel) :
                 Stale(call'[p].sel[i], call'[p].stale, call'[p].tnow)
       /\ (pc[p] = "reap_update" /\ pc'[p] = "done") =>
            \A r \in RunIds :
              runs'[r] # runs[r] => Stale(r, call[p].stale, call[p].tnow)
       /\ (pc[p] = "reap_update" /\ pc'[p] = "reap_update") =>
            \A i \in 1 .. Len(call[p].sel) : runs'[call[p].sel[i]] = runs[call[p].sel[i]]]_vars

\* C10 witness: the reaper failed a stale run while a heartbeat for it, which
\* had read it RUNNING, was waiting to run its UPDATE.
ReapOnlyStaleRunningWitness ==
  \E p, q \in Procs, r \in RunIds :
    /\ pc[p] = "done" /\ call[p].op = "reap_stale" /\ resp[p].run_ids = <<r>>
    /\ pc[q] = "heartbeat_update" /\ call[q].run_id = r
    /\ runs[r].status = "FAILED"

\* ------------------------------------------------------------- concurrent claims
\* N claim calls over a queue of K QUEUED runs whose pipeline version exists:
\* the runs as create_run inserted them, every handler idle, and from there
\* each handler makes one unfiltered claim call.
MaxClaims == 3
MaxQueued == 3

InitClaim ==
  /\ now = 0
  /\ \E k \in 0 .. MaxQueued :
       /\ runs \in [1 .. k -> {PipelineRun(tn, "v1", "manual", "p0", 0) : tn \in {"t1"}}]
       /\ lock = [r \in 1 .. k |-> NoProc]
  /\ logs = {}
  /\ versions = [v \in VersionIds |-> IF v = "v1" THEN "APPROVED" ELSE "MISSING"]
  /\ \E n \in 1 .. MaxClaims :
       /\ pc = [p \in 1 .. n |-> "idle"]
       /\ call = [p \in 1 .. n |-> NoCall]
       /\ resp = [p \in 1 .. n |-> NoResp]
       /\ worker = NoWorker

NextClaim ==
  \/ Tick
  \/ \E p \in Procs, w \in Workers, t \in 0 .. now : ClaimSelect(p, w, Null, t)
  \/ \E p \in Procs : ClaimUpdate(p)

SpecClaim == InitClaim /\ [][NextClaim]_vars

\* The calls that returned claimed:true.
Won == {p \in Procs : pc[p] = "done" /\ resp[p].reason = "claimed:true"}

\* C1: no two claim calls return the same run id, and once all N calls have
\* returned, exactly min(N, K) of them returned claimed:true (each with a run
\* now RUNNING) and the others returned claimed:false.
ClaimsDisjoint ==
  /\ \A p, q \in Won : p # q => resp[p].run_id # resp[q].run_id
  /\ (\A p \in Procs : pc[p] = "done") =>
       /\ Cardinality(Won) = Min(Cardinality(Procs), Cardinality(RunIds))
       /\ \A p \in Won : resp[p].code = 200 /\ runs[resp[p].run_id].status = "RUNNING"
       /\ \A p \in Procs \ Won : resp[p].code = 200 /\ resp[p].reason = "claimed:false"

\* C1 witness: three calls over two runs have all returned, two of them with
\* a run and one with claimed:false.
ClaimsDisjointWitness ==
  /\ Cardinality(Procs) = 3 /\ Cardinality(RunIds) = 2
  /\ \A p \in Procs : pc[p] = "done"
  /\ Cardinality(Won) = 2
  /\ \E p \in Procs : resp[p].reason = "claimed:false"

\* ------------------------------------------------------------- cancel against complete
\* A RUNNING run R, as a claim at time 0 left it; one handler calls cancel(R)
\* and another complete(R, SUCCEEDED), their statements interleaved freely.
InitRace ==
  /\ now = 0
  /\ \E tn \in Tenants, w \in Workers :
       runs = [r \in 1 .. 1 |-> ClaimedRow(PipelineRun(tn, "v1", "manual", "p0", 0), w, 0)]
  /\ lock = [r \in 1 .. 1 |-> NoProc]
  /\ logs = {}
  /\ versions = [v \in VersionIds |-> IF v = "v1" THEN "APPROVED" ELSE "MISSING"]
  /\ pc = [p \in 1 .. NumProcs |-> "idle"]
  /\ call = [p \in 1 .. NumProcs |-> NoCall]
  /\ resp = [p \in 1 .. NumProcs |-> NoResp]
  /\ worker = NoWorker

NextRace ==
  \/ Tick
  \/ \E p \in Procs, r \in RunIds :
       (\A q \in Procs : call[q].op # "cancel") /\ CancelRead(p, r)
  \/ \E p \in Procs : CancelUpdate(p)
  \/ \E p \in Procs, r \in RunIds, em \in {Null, "boom"}, t \in 0 .. now :
       (\A q \in Procs : call[q].op # "complete") /\ CompleteRun(p, r, "SUCCEEDED", em, t)

SpecRace == InitRace /\ [][NextRace]_vars

\* C3: when the cancel and the complete have both returned, exactly one of
\* them returned success; if it is the cancel, the complete returned 409 and R
\* is CANCELLED; if it is the complete, the cancel returned 409 and R is SUCCEEDED.
RaceExactlyOneSucceeds ==
  \A p, q \in Procs :
    (/\ pc[p] = "done" /\ call[p].op = "cancel"
     /\ pc[q] = "done" /\ call[q].op = "complete") =>
      \/ /\ resp[p].code = 200 /\ resp[q].code = 409
         /\ runs[call[p].run_id].status = "CANCELLED"
      \/ /\ resp[p].code = 409 /\ resp[q].code = 200
         /\ runs[call[p].run_id].status = "SUCCEEDED"

\* C11: when reap_stale returns, every run id in its run_ids is FAILED with
\* finished_at set and error_message "Stale: no heartbeat for Ns", N the
\* effective threshold; the step that did this appended to that run exactly one
\* entry, a WARN from control-plane with meta.stale_after_seconds = N; and
\* reaped is the length of run_ids.
ReapMarksAndLogs ==
  [][\A p \in Procs :
       Returns(p, "reap_stale") =>
         LET ids == resp'[p].run_ids
             n == call'[p].stale
         IN /\ resp'[p].code = 200 /\ resp'[p].reaped = Len(ids) /\ n >= 1
            /\ \A i \in 1 .. Len(ids) :
                 LET r == ids[i]
                     new == {e \in logs' \ logs : e.run_id = r}
                 IN /\ runs'[r].status = "FAILED" /\ runs'[r].finished_at # NullT
                    /\ runs'[r].error_message = "Stale: no heartbeat for " \o ToString(n) \o "s"
                    /\ Cardinality(new) = 1
                    /\ \A e \in new : /\ e.level = "WARN" /\ e.source = "control-plane"
                                      /\ e.meta.stale_after_seconds = n]_vars

\* C11 witness: a reap with threshold 1 has returned one run, now FAILED with
\* the message for 1 s, and the log holds its entry.
ReapMarksAndLogsWitness ==
  \E p \in Procs, r \in RunIds :
    /\ pc[p] = "done" /\ call[p].op = "reap_stale" /\ call[p].stale = 1
    /\ resp[p].run_ids = <<r>> /\ resp[p].reaped = 1
    /\ runs[r].error_message = "Stale: no heartbeat for 1s"
    /\ \E e \in logs : e.run_id = r /\ e.meta.stale_after_seconds = 1

\* C12: a retry returns success only if its target is FAILED or CANCELLED; on
\* a QUEUED, RUNNING or SUCCEEDED run it returns 409 invalid_state and on a
\* missing run 404, and then no run and no log entry is created.
RetryRejectsOtherStates ==
  [][\A p \in Procs :
       Returns(p, "retry") =>
         LET r == call'[p].run_id
         IN /\ resp'[p].code = 200 => runs[r].status \in {"FAILED", "CANCELLED"}
            /\ ~Exists(r) =>
                 /\ resp'[p].code = 404 /\ resp'[p].reason = "run_not_found"
                 /\ runs' = runs /\ logs' = logs
            /\ runs[r].status \in {"QUEUED", "RUNNING", "SUCCEEDED"} =>
                 /\ resp'[p].code = 409 /\ resp'[p].reason = "invalid_state"
                 /\ runs' = runs /\ logs' = logs]_vars

\* C12 witness: a retry of a SUCCEEDED run was answered 409 invalid_state.
RetryRejectsOtherStatesWitness ==
  \E p \in Procs :
    /\ pc[p] = "done" /\ call[p].op = "retry"
    /\ resp[p].code = 409 /\ resp[p].reason = "invalid_state"
    /\ runs[call[p].run_id].status = "SUCCEEDED"

\* ------------------------------------------------------------- retry and lineage
\* One run as create_run inserted it and room in the table for its retries;
\* from there the run is claimed, completed, cancelled and retried while its
\* pipeline version changes status.
MaxLineage == 2

InitRetry ==
  /\ now = 0
  /\ \E tn \in Tenants, pm \in {"p0", "p1"} :
       runs = [r \in 1 .. MaxLineage |->
                 IF r = 1 THEN PipelineRun(tn, "v1", "manual", pm, 0) ELSE AbsentRow]
  /\ lock = [r \in 1 .. MaxLineage |-> NoProc]
  /\ logs = {}
  /\ versions = [v \in VersionIds |-> IF v = "v1" THEN "APPROVED" ELSE "MISSING"]
  /\ pc = [p \in 1 .. NumProcs |-> "idle"]
  /\ call = [p \in 1 .. NumProcs |-> NoCall]
  /\ resp = [p \in 1 .. NumProcs |-> NoResp]
  /\ worker = NoWorker

NextRetry ==
  \/ Quiet /\ Tick
  \/ Quiet /\ \E v \in VersionIds, s \in ApproveVersionBodies : SetPipelineVersionStatus(v, s)
  \/ Quiet /\ \E p \in Procs, b \in RunClaimBodies, t \in 0 .. now : ClaimSelect(p, b[1], b[2], t)
  \/ Quiet /\ \E p \in Procs : ClaimUpdate(p)
  \/ Quiet /\ \E p \in Procs, r \in RunIds, b \in RunCompleteBodies, t \in 0 .. now :
                CompleteRun(p, r, b[1], b[2], t)
  \/ Quiet /\ \E p \in Procs, r \in RunIds : CancelRead(p, r)
  \/ Quiet /\ \E p \in Procs : CancelUpdate(p)
  \/ Quiet /\ \E p \in Procs, r \in RunIds, o \in {Null, "p1"} : RetryRun(p, r, o)
  \/ \E p \in Procs : Return(p)

SpecRetry == InitRetry /\ [][NextRetry]_vars

\* The root a retry of run r belongs to.
RootOf(r) == IF runs[r].root_run_id # NoRun THEN runs[r].root_run_id ELSE r

\* A retry of r is due to succeed: r is FAILED or CANCELLED and its pipeline
\* version is APPROVED.
Retryable(r) ==
  /\ Exists(r) /\ runs[r].status \in {"FAILED", "CANCELLED"}
  /\ versions[runs[r].pipeline_version_id] = "APPROVED"

RetryCreatesRun ==
  [][\A p \in Procs :
       (Returns(p, "retry") /\ Retryable(call'[p].run_id)) =>
         LET r == call'[p].run_id
             created == {n \in RunIds : ~Exists(n) /\ runs'[n].status # "ABSENT"}
         IN /\ resp'[p].code = 200
            /\ Cardinality(created) = 1
            /\ \A n \in created :
                 /\ runs'[n].status = "QUEUED" /\ runs'[n].trigger_type = "retry"
                 /\ runs'[n].tenant_id = runs[r].tenant_id
                 /\ runs'[n].pipeline_version_id = runs[r].pipeline_version_id
                 /\ runs'[n].parameters = IF call'[p].params # Null THEN call'[p].params
                                          ELSE runs[r].parameters
                 /\ runs'[n].retry_of_run_id = r
                 /\ \E e \in logs' \ logs :
                      /\ logs' \ logs = {e} /\ e.run_id = n /\ e.level = "INFO"
                      /\ e.message = "Retry of " \o ToString(r)
            /\ runs'[r] = runs[r]]_vars

\* ------------------------------------------------------------- a version record gone
\* As InitRetry, but the run may reference a pipeline version whose record
\* does not exist (any longer): the case claim_run and retry_run test for
\* after their SELECT of pipeline_versions.
InitOrphan ==
  /\ now = 0
  /\ \E tn \in Tenants, pv \in VersionIds :
       runs = [r \in 1 .. MaxLineage |->
                 IF r = 1 THEN PipelineRun(tn, pv, "manual", "p0", 0) ELSE AbsentRow]
  /\ lock = [r \in 1 .. MaxLineage |-> NoProc]
  /\ logs = {}
  /\ versions = [v \in VersionIds |-> IF v = "v1" THEN "APPROVED" ELSE "MISSING"]
  /\ pc = [p \in 1 .. NumProcs |-> "idle"]
  /\ call = [p \in 1 .. NumProcs |-> NoCall]
  /\ resp = [p \in 1 .. NumProcs |-> NoResp]
  /\ worker = NoWorker

SpecOrphan == InitOrphan /\ [][NextRetry]_vars

\* C14: a retry of a FAILED or CANCELLED run returns 409
\* pipeline_version_not_found when the version record is missing and 400
\* pipeline_version_not_approved when the version is not APPROVED, and
\* creates no run and no log entry; a run a retry does create references a
\* version that is APPROVED at that moment.
RetryRejectsUnapprovedVersion ==
  [][\A p \in Procs :
       Returns(p, "retry") =>
         LET r == call'[p].run_id
             st == versions[runs[r].pipeline_version_id]
         IN /\ (runs[r].status \in {"FAILED", "CANCELLED"} /\ st = "MISSING") =>
                 /\ resp'[p].code = 409 /\ resp'[p].reason = "pipeline_version_not_found"
                 /\ runs' = runs /\ logs' = logs
            /\ (runs[r].status \in {"FAILED", "CANCELLED"} /\ st \notin {"MISSING", "APPROVED"}) =>
                 /\ resp'[p].code = 400 /\ resp'[p].reason = "pipeline_version_not_approved"
                 /\ runs' = runs /\ logs' = logs
            /\ \A n \in RunIds :
                 (~Exists(n) /\ runs'[n].status # "ABSENT") =>
                   versions[runs'[n].pipeline_version_id] = "APPROVED"]_vars

\* C14 witness: a retry of a FAILED run whose version had been DEPRECATED was
\* answered 400 pipeline_version_not_approved.
RetryRejectsUnapprovedVersionWitness ==
  \E p \in Procs :
    /\ pc[p] = "done" /\ call[p].op = "retry"
    /\ resp[p].code = 400 /\ resp[p].reason = "pipeline_version_not_approved"
    /\ runs[call[p].run_id].status = "FAILED"
    /\ versions[runs[call[p].run_id].pipeline_version_id] = "DEPRECATED"

\* C17: a claim that selected a run whose pipeline version record is missing
\* returns 409, and the run is left QUEUED with claimed_at, claimed_by,
\* heartbeat_at and started_at null, unlocked and as it was before the claim.
ClaimRollsBackOnMissingVersion ==
  [][\A p \in Procs :
       (pc[p] = "claim_update" /\ pc'[p] = "done"
        /\ versions[runs[call[p].run_id].pipeline_version_id] = "MISSING") =>
         LET r == call[p].run_id
         IN /\ resp'[p].code = 409
            /\ runs'[r] = runs[r] /\ runs'[r].status = "QUEUED"
            /\ runs'[r].claimed_at = NullT /\ runs'[r].claimed_by = Null
            /\ runs'[r].heartbeat_at = NullT /\ runs'[r].started_at = NullT
            /\ lock'[r] = NoProc]_vars

\* C17 witness: a claim by w1 was answered 409 and the run it had selected,
\* whose version record is missing, is QUEUED and unbound.
ClaimRollsBackOnMissingVersionWitness ==
  \E p \in Procs, r \in RunIds :
    /\ pc[p] = "done" /\ call[p].op = "claim" /\ call[p].worker_id = "w1"
    /\ call[p].run_id = r /\ resp[p].code = 409
    /\ versions[runs[r].pipeline_version_id] = "MISSING"
    /\ runs[r].status = "QUEUED" /\ runs[r].claimed_by = Null

\* ------------------------------------------------------------- the queue's order
\* A queue of runs of both tenants, inserted by create_run at clock 0 or 1,
\* and from clock 1 on claims with and without a tenant filter.
QueueTime == 1

InitQueue ==
  /\ now = QueueTime
  /\ \E k \in 1 .. MaxQueued :
       /\ runs \in [1 .. k -> {PipelineRun(tn, "v1", "manual", "p0", t) :
                                 tn \in Tenants, t \in 0 .. QueueTime}]
       /\ lock = [r \in 1 .. k |-> NoProc]
  /\ logs = {}
  /\ versions = [v \in VersionIds |-> IF v = "v1" THEN "APPROVED" ELSE "MISSING"]
  /\ pc = [p \in 1 .. NumProcs |-> "idle"]
  /\ call = [p \in 1 .. NumProcs |-> NoCall]
  /\ resp = [p \in 1 .. NumProcs |-> NoResp]
  /\ worker = NoWorker

NextQueue ==
  \/ Quiet /\ \E p \in Procs, b \in RunClaimBodies : ClaimSelect(p, b[1], b[2], now)
  \/ Quiet /\ \E p \in Procs : ClaimUpdate(p)
  \/ \E p \in Procs : Return(p)

SpecQueue == InitQueue /\ [][NextQueue]_vars

\* C16: the run a claim selects has the smallest created_at among the QUEUED
\* runs that match its tenant filter (if it has one) and that no other
\* transaction holds locked; the claim then returns that run, whose tenant is
\* the filter's when there is a filter, and changes no other run.
ClaimTakesOldestOfTenant ==
  [][\A p \in Procs :
       /\ (pc[p] = "idle" /\ pc'[p] = "claim_update") =>
            LET r == call'[p].run_id
                tf == call'[p].tenant_id
                M == {q \in RunIds : /\ runs[q].status = "QUEUED" /\ lock[q] = NoProc
                                     /\ (tf # Null => runs[q].tenant_id = tf)}
            IN r \in M /\ \A q \in M : runs[r].created_at <= runs[q].created_at
       /\ (pc[p] = "claim_update" /\ pc'[p] = "done" /\ resp'[p].reason = "claimed:true") =>
            LET r == call[p].run_id
            IN /\ resp'[p].run_id = r /\ runs'[r].status = "RUNNING"
               /\ call[p].tenant_id # Null => runs'[r].tenant_id = call[p].tenant_id
               /\ \A q \in RunIds \ {r} : runs'[q] = runs[q]]_vars

\* C16 witness: a claim returned a run of tenant t2 inserted at clock 1 while an
\* older run of tenant t1 is still QUEUED and unlocked.
ClaimTakesOldestOfTenantWitness ==
  \E p \in Procs, r, q \in RunIds :
    /\ pc[p] = "done" /\ resp[p].reason = "claimed:true" /\ resp[p].run_id = r
    /\ runs[r].tenant_id = "t2" /\ runs[r].created_at = 1
    /\ runs[q].status = "QUEUED" /\ runs[q].tenant_id = "t1" /\ runs[q].created_at = 0
    /\ lock[q] = NoProc

\* C18: once a run is claimed, no step changes its started_at, claimed_at or
\* claimed_by, and no claim commits on a run that is already bound to a worker.
ClaimBindingPermanent ==
  [][\A r \in RunIds :
       /\ runs[r].claimed_by # Null =>
            /\ runs'[r].started_at = runs[r].started_at
            /\ runs'[r].claimed_at = runs[r].claimed_at
            /\ runs'[r].claimed_by = runs[r].claimed_by
       /\ runs[r].started_at # NullT => runs'[r].started_at = runs[r].started_at
       /\ \A p \in Procs :
            (pc[p] = "claim_update" /\ pc'[p] = "done" /\ call[p].run_id = r) =>
              runs[r].claimed_by = Null /\ runs[r].started_at = NullT]_vars

\* C18 witness: a claim by w2 found nothing to claim while the run, claimed by
\* w1 at an earlier clock value, is RUNNING and still bound to w1.
ClaimBindingPermanentWitness ==
  \E p \in Procs, r \in RunIds :
    /\ pc[p] = "done" /\ call[p].op = "claim" /\ call[p].worker_id = "w2"
    /\ resp[p].reason = "claimed:false"
    /\ runs[r].status = "RUNNING" /\ runs[r].claimed_by = "w1"
    /\ runs[r].claimed_at < now /\ runs[r].started_at = runs[r].claimed_at

\* C19: in every state each log entry references an existing run and carries
\* that run's tenant_id, whichever handler wrote it; and an append to a run
\* that does not exist returns 404 and inserts nothing.
LogTenantIsRunTenant ==
  /\ [](\A e \in logs : Exists(e.run_id) /\ e.tenant_id = runs[e.run_id].tenant_id)
  /\ [][\A p \in Procs :
          (Returns(p, "append_log") /\ ~Exists(call'[p].run_id)) =>
            resp'[p].code = 404 /\ logs' = logs /\ runs' = runs]_vars

\* C19 witness: the log of a run of tenant t2 holds an entry a worker appended
\* and an entry the control plane wrote, both of tenant t2.
LogTenantIsRunTenantWitness ==
  \E e, f \in logs :
    /\ e.source = "worker" /\ f.source = "control-plane" /\ e.run_id = f.run_id
    /\ e.tenant_id = "t2" /\ f.tenant_id = "t2" /\ runs[e.run_id].tenant_id = "t2"

\* C20: a cancel that returns success has set the run CANCELLED with
\* finished_at set and error_message 'Cancelled by admin' and has appended
\* exactly one WARN entry "Run cancelled" to it; a cancel whose run is
\* SUCCEEDED, FAILED or CANCELLED returns 409 invalid_state, a cancel of a
\* missing run 404, and these change neither a run nor the log.
CancelSetsCancelledOrRejects ==
  [][\A p \in Procs :
       Returns(p, "cancel") =>
         LET r == call'[p].run_id
             new == {e \in logs' \ logs : e.run_id = r}
         IN /\ ~Exists(r) =>
                 resp'[p].code = 404 /\ runs' = runs /\ logs' = logs
            /\ runs[r].status \in Terminal =>
                 /\ resp'[p].code = 409 /\ resp'[p].reason = "invalid_state"
                 /\ runs' = runs /\ logs' = logs
            /\ runs[r].status \in {"QUEUED", "RUNNING"} =>
                 /\ resp'[p].code = 200
                 /\ runs'[r].status = "CANCELLED" /\ runs'[r].finished_at # NullT
                 /\ runs'[r].error_message = "Cancelled by admin"
                 /\ logs' \ logs = new /\ Cardinality(new) = 1
                 /\ \A e \in new : e.level = "WARN" /\ e.message = "Run cancelled"]_vars

\* C21: only APPROVED pipeline versions run: create_run goes on to insert a
\* run only when it finds the run's pipeline version APPROVED, and whenever a
\* claim commits a run as RUNNING and returns it, the run's pipeline version
\* is APPROVED at that moment.
OnlyApprovedVersionsRun ==
  [][\A p \in Procs :
       /\ (pc[p] = "idle" /\ pc'[p] = "create_insert") =>
            versions[call'[p].pv] = "APPROVED"
       /\ (Returns(p, "claim") /\ resp'[p].reason = "claimed:true") =>
            /\ runs'[resp'[p].run_id].status = "RUNNING"
            /\ versions[runs'[resp'[p].run_id].pipeline_version_id] = "APPROVED"]_vars

\* C26: a heartbeat that returns ok:true with a timestamp has refreshed the
\* run's heartbeat_at: when its UPDATE executed the run was RUNNING and claimed
\* by that worker, whatever cancel, complete or reap_stale committed between
\* the heartbeat's read and its UPDATE.
HeartbeatOkOnlyIfRefreshed ==
  [][\A p \in Procs :
       (Returns(p, "heartbeat") /\ resp'[p].code = 200) =>
         LET r == call'[p].run_id
         IN /\ runs[r].status = "RUNNING" /\ runs[r].claimed_by = call'[p].worker_id
            /\ runs'[r].status = "RUNNING"
            /\ runs'[r].heartbeat_at = call[p].tnow]_vars

\* A step in which run r leaves status `from` for another status.
Leaves(r, from) == runs[r].status \in from /\ runs'[r].status # runs[r].status

\* C27 as stated: every run goes QUEUED, RUNNING exactly once (entered only
\* through a claim), then exactly one terminal status: a run enters SUCCEEDED,
\* FAILED or CANCELLED only from RUNNING, so every terminal run was RUNNING
\* exactly once before, and a terminal status is never left.
LifecycleRunningExactlyOnce ==
  [][\A r \in RunIds :
       /\ Leaves(r, {"ABSENT"}) => runs'[r].status = "QUEUED"
       /\ Leaves(r, {"QUEUED"}) =>
            /\ runs'[r].status = "RUNNING"
            /\ \E p \in Procs : Returns(p, "claim") /\ resp'[p].run_id = r
       /\ Leaves(r, {"RUNNING"}) => runs'[r].status \in Terminal
       /\ ~Leaves(r, Terminal)]_vars

\* C27 amended: every run goes QUEUED, RUNNING at most once (entered only
\* through a claim, from QUEUED), then exactly one terminal status: a run
\* enters SUCCEEDED or FAILED only from RUNNING, so it was RUNNING exactly once
\* before; it enters CANCELLED from RUNNING or, by a cancel, straight from
\* QUEUED without ever having been RUNNING; and a terminal status is never left.
LifecycleRunningAtMostOnce ==
  [][\A r \in RunIds :
       /\ Leaves(r, {"ABSENT"}) => runs'[r].status = "QUEUED"
       /\ Leaves(r, {"QUEUED"}) =>
            \/ /\ runs'[r].status = "RUNNING"
               /\ \E p \in Procs : Returns(p, "claim") /\ resp'[p].run_id = r
            \/ /\ runs'[r].status = "CANCELLED"
               /\ \E p \in Procs : Returns(p, "cancel") /\ call'[p].run_id = r
       /\ Leaves(r, {"RUNNING"}) => runs'[r].status \in Terminal
       /\ ~Leaves(r, Terminal)]_vars

\* C27 witness: a run that a cancel took from QUEUED to CANCELLED: it is
\* terminal and no worker ever claimed it.
LifecycleRunningAtMostOnceWitness ==
  \E r \in RunIds, p \in Procs :
    /\ pc[p] = "done" /\ call[p].op = "cancel" /\ call[p].run_id = r /\ resp[p].code = 200
    /\ runs[r].status = "CANCELLED" /\ runs[r].claimed_by = Null
    /\ runs[r].started_at = NullT /\ runs[r].finished_at # NullT

\* ------------------------------------------------------------- several live runs
\* Up to MaxFleet runs of one tenant, created at clock 0 or 1, each still
\* QUEUED or claimed by w1 at some clock value before FleetTime; at FleetTime an operator
\* cancels, reaps and retries.
MaxFleet == 3
FleetTime == 3

FleetReapBodies == {<<0, 0>>, <<1, 2>>, <<1, 501>>, <<2, 1>>, <<-1, -1>>}

FleetRows ==
  LET created(t) == PipelineRun("t1", "v1", "manual", "p0", t)
  IN {created(t) : t \in 0 .. 1}
       \cup UNION {{ClaimedRow(created(t), "w1", h) : h \in t .. FleetTime - 1} : t \in 0 .. 1}

InitFleet ==
  /\ now = FleetTime
  /\ \E k \in 1 .. MaxFleet :
       /\ runs \in [1 .. k -> FleetRows]
       /\ lock = [r \in 1 .. k |-> NoProc]
  /\ logs = {}
  /\ versions = [v \in VersionIds |-> IF v = "v1" THEN "APPROVED" ELSE "MISSING"]
  /\ pc = [p \in 1 .. NumProcs |-> "idle"]
  /\ call = [p \in 1 .. NumProcs |-> NoCall]
  /\ resp = [p \in 1 .. NumProcs |-> NoResp]
  /\ worker = NoWorker

NextFleet ==
  \/ Quiet /\ \E p \in Procs, r \in RunIds : CancelRead(p, r)
  \/ Quiet /\ \E p \in Procs : CancelUpdate(p)
  \/ Quiet /\ \E p \in Procs, b \in FleetReapBodies : ReapSelect(p, b[1], b[2])
  \/ Quiet /\ \E p \in Procs : ReapUpdate(p)
  \/ Quiet /\ \E p \in Procs, r \in RunIds : RetryRun(p, r, Null)
  \/ \E p \in Procs : Return(p)

SpecFleet == InitFleet /\ [][NextFleet]_vars

ReapClampsAndLimits ==
  [][\A p \in Procs :
       /\ (pc[p] = "idle" /\ pc'[p] = "done" /\ call'[p].op = "reap_stale") =>
            /\ call'[p].stale >= 1
            /\ ReapCandidates(call'[p].stale, now) = {}
            /\ runs' = runs /\ resp'[p].reaped = 0
       /\ (pc[p] = "idle" /\ pc'[p] = "reap_update") =>
            LET c == call'[p]
                n == IF c.stale_after_seconds < 1 THEN 1 ELSE c.stale_after_seconds
                lim == IF c.body_limit < 1 THEN 1
                       ELSE IF c.body_limit > 500 THEN 500 ELSE c.body_limit
                S == ReapCandidates(n, now)
                sel == {c.sel[i] : i \in 1 .. Len(c.sel)}
            IN /\ c.stale = n /\ c.limit = lim
               /\ Len(c.sel) = Min(lim, Cardinality(S)) /\ Cardinality(sel) = Len(c.sel)
               /\ sel \subseteq S
               /\ \A i, j \in 1 .. Len(c.sel) :
                    i < j => runs[c.sel[i]].created_at <= runs[c.sel[j]].created_at
               /\ \A r \in sel, q \in S \ sel : runs[r].created_at <= runs[q].created_at
       /\ (pc[p] = "reap_update" /\ pc'[p] = "done") =>
            LET sel == {call[p].sel[i] : i \in 1 .. Len(call[p].sel)}
            IN /\ resp'[p].reaped = Cardinality(sel) /\ resp'[p].run_ids = call[p].sel
               /\ \A r \in RunIds :
                    IF r \in sel THEN runs[r].status = "RUNNING" /\ runs'[r].status = "FAILED"
                    ELSE runs'[r] = runs[r]]_vars

\* C25 witness: a reap has returned with one run reaped, and another run, as
\* stale as the reaped one under the threshold that call used, is still RUNNING.
ReapClampsAndLimitsWitness ==
  \E p \in Procs, q \in RunIds :
    /\ pc[p] = "done" /\ call[p].op = "reap_stale" /\ resp[p].reaped = 1
    /\ runs[resp[p].run_ids[1]].status = "FAILED"
    /\ Stale(q, call[p].stale, now)
    /\ runs[q].created_at >= runs[resp[p].run_ids[1]].created_at

\* ------------------------------------------------------------- log query
\* limit: int = Query(200, ge=1, le=1000)
LogLimitMin == 1
LogLimitMax == 1000

\* order.lower(), on the spellings the queries below use
Lower(order) == IF order = "DESC" THEN "desc" ELSE order

\* order_dir = "DESC" if order.lower() == "desc" else "ASC"
OrderDir(order) == IF Lower(order) = "desc" THEN "DESC" ELSE "ASC"

\* The query's WHERE without run_id = :run_id: with it a query returns other
\* runs' entries and LogQueryExact fails.
LogMatchesAnyRun(e, r, before_ts, after_ts) ==
  /\ before_ts # NullT => e.ts < before_ts
  /\ after_ts # NullT => e.ts > after_ts

\* WHERE run_id = :run_id [AND ts < :before_ts] [AND ts > :after_ts]
LogMatches(e, r, before_ts, after_ts) ==
  /\ e.run_id = r
  /\ before_ts # NullT => e.ts < before_ts
  /\ after_ts # NullT => e.ts > after_ts

\* SELECT id, ts, level, message, source, meta
LogRow(e) ==
  [id |-> e.id, ts |-> e.ts, level |-> e.level, message |-> e.message,
   source |-> e.source, meta |-> e.meta]

\* ORDER BY ts {order_dir}: the orders of S the database may produce
ByTs(S, order_dir) ==
  {f \in [1 .. Cardinality(S) -> S] :
     \A i, j \in 1 .. Cardinality(S) :
       i < j => /\ f[i] # f[j]
                /\ IF order_dir = "DESC" THEN f[i].ts >= f[j].ts ELSE f[i].ts <= f[j].ts}

\* runs.py get_run_logs: the parameter validation, _run_exists, and the SELECT
\* ... ORDER BY ts LIMIT :limit. No handler deletes a run, so nothing that
\* commits between the two reads changes the outcome.
GetRunLogs(p, r, limit, before_ts, after_ts, order) ==
  /\ pc[p] = "idle"
  /\ LET c == [NoCall EXCEPT !.op = "get_run_logs", !.run_id = r, !.limit = limit,
                             !.before_ts = before_ts, !.after_ts = after_ts,
                             !.order = order]
         S == {LogRow(e) : e \in {x \in logs : LogMatches(x, r, before_ts, after_ts)}}
     IN IF limit < LogLimitMin \/ limit > LogLimitMax
        THEN Finish(p, c, Resp(422, "validation"))
        ELSE IF ~Exists(r) THEN Finish(p, c, Resp(404, "found:false"))
        ELSE \E f \in ByTs(S, OrderDir(order)) :
               Finish(p, c, [Resp(200, "found:true") EXCEPT
                               !.run_id = r, !.logs = SubSeq(f, 1, Min(limit, Len(f)))])
  /\ UNCHANGED <<now, runs, lock, logs, versions, worker>>

\* Two runs of different tenants and a third id that names no run; up to
\* MaxLogs entries appended to the two runs at clock values up to LogTime.
MaxLogs == 3
LogTime == 1

LogQueries ==
  [run_id : 1 .. 3, limit : {0, 1, 2, 1000}, before_ts : {NullT} \cup 0 .. LogTime + 1,
   after_ts : {NullT} \cup 0 .. LogTime, order : {"asc", "desc", "DESC"}]

RECURSIVE InsertLogs(_, _)
InsertLogs(L, es) ==
  IF es = <<>> THEN L ELSE InsertLogs(InsertLog(L, Head(es)), Tail(es))

InitLogs ==
  /\ now = LogTime
  /\ runs = <<PipelineRun("t1", "v1", "manual", "p0", 0),
              PipelineRun("t2", "v1", "manual", "p0", 0), AbsentRow>>
  /\ lock = [r \in 1 .. 3 |-> NoProc]
  /\ \E k \in 0 .. MaxLogs :
       \E es \in [1 .. k -> {LogEntry(r, runs[r].tenant_id, t, "INFO", "Claimed run", "worker", NoMeta) :
                               r \in 1 .. 2, t \in 0 .. LogTime}] :
         logs = InsertLogs({}, es)
  /\ versions = [v \in VersionIds |-> IF v = "v1" THEN "APPROVED" ELSE "MISSING"]
  /\ pc = [p \in 1 .. NumProcs |-> "idle"]
  /\ call = [p \in 1 .. NumProcs |-> NoCall]
  /\ resp = [p \in 1 .. NumProcs |-> NoResp]
  /\ worker = NoWorker

NextLogs ==
  \/ Quiet /\ \E p \in Procs, q \in LogQueries :
                GetRunLogs(p, q.run_id, q.limit, q.before_ts, q.after_ts, q.order)
  \/ \E p \in Procs : Return(p)

SpecLogs == InitLogs /\ [][NextLogs]_vars

\* C24: a log query for an existing run returns exactly the entries of that
\* run, never another run's, whose ts is strictly below before_ts and strictly
\* above after_ts when these are given, sorted by ts ascending unless order is
\* desc, cut to the first `limit` entries of that order; for a missing run it
\* returns 404 with an empty list.
LogQueryExact ==
  [][\A p \in Procs :
       (Returns(p, "get_run_logs") /\ resp'[p].code # 422) =>
         LET c == call'[p]
             L == resp'[p].logs
             got == {L[i] : i \in 1 .. Len(L)}
             M == {LogRow(e) : e \in
                     {x \in logs : /\ x.run_id = c.run_id
                                   /\ c.before_ts # NullT => x.ts < c.before_ts
                                   /\ c.after_ts # NullT => x.ts > c.after_ts}}
             desc == c.order \in {"desc", "DESC"}
         IN IF ~Exists(c.run_id) THEN resp'[p].code = 404 /\ L = <<>>
            ELSE /\ resp'[p].code = 200
                 /\ got \subseteq M /\ Cardinality(got) = Len(L)
                 /\ Len(L) = Min(c.limit, Cardinality(M))
                 /\ \A i, j \in 1 .. Len(L) :
                      i < j => IF desc THEN L[i].ts >= L[j].ts ELSE L[i].ts <= L[j].ts
                 /\ \A x \in got, y \in M \ got :
                      IF desc THEN x.ts >= y.ts ELSE x.ts <= y.ts]_vars

\* C24 witness: a descending query with a before_ts bound and limit 1 on run
\* 1 has returned the newest entry, while run 1 holds an older entry inside
\* the bound that the limit cut off and run 2 holds an entry as new as the
\* returned one.
LogQueryExactWitness ==
  \E p \in Procs :
    /\ pc[p] = "done" /\ call[p].op = "get_run_logs" /\ call[p].run_id = 1
    /\ call[p].order = "desc" /\ call[p].limit = 1 /\ call[p].before_ts # NullT
    /\ Len(resp[p].logs) = 1
    /\ \E e \in logs : e.run_id = 1 /\ e.ts < resp[p].logs[1].ts
    /\ \E e \in logs : e.run_id = 2 /\ e.ts = resp[p].logs[1].ts

\* ------------------------------------------------------------- the worker's loop
\* worker.py: WORKER_ID, TENANT_ID (unset), and the handler slot that serves
\* the worker's requests (its httpx.Client sends one request at a time).
WORKER_ID == "w1"
TENANT_ID == Null
WorkerSlot == 1

\* COMPLETE_RETRY_DELAYS = [0.5, 1.0, 2.0, 4.0, 8.0], in half seconds
COMPLETE_RETRY_DELAYS == <<1, 2, 4, 8, 16>>

\* The append_log calls of main, in order of the positions that make them.
LogSteps == {"log_claimed", "log_began", "log_started", "log_finished",
             "log_completed", "log_failed"}

LogMessage(at) ==
  CASE at = "log_claimed" -> "Claimed run"
    [] at = "log_began" -> "Run began executing"
    [] at = "log_started" -> "Simulate work started"
    [] at = "log_finished" -> "Simulate work finished"
    [] at = "log_completed" -> "Run completed successfully"
    [] at = "log_failed" -> "Run failed"

LogLevel(at) == IF at = "log_failed" THEN "ERROR" ELSE "INFO"

\* Where main goes after the append_log made at position `at`; after "Run
\* failed" it calls complete_run(FAILED), a new call with its own attempts.
AfterLog(w) ==
  CASE w.pc = "log_claimed" -> [w EXCEPT !.pc = "log_began"]
    [] w.pc = "log_began" -> [w EXCEPT !.pc = "log_started"]
    [] w.pc = "log_started" -> [w EXCEPT !.pc = "work"]
    [] w.pc = "log_finished" ->
         [w EXCEPT !.pc = "complete", !.status = "SUCCEEDED", !.attempt = 0,
                   !.slept = 0, !.last = 0, !.out = Null]
    [] w.pc = "log_completed" -> [w EXCEPT !.pc = "claim"]
    [] w.pc = "log_failed" ->
         [w EXCEPT !.pc = "complete", !.status = "FAILED", !.attempt = 0,
                   !.slept = 0, !.last = 0, !.out = Null]

\* The response to the worker's request is consumed: its slot is free again.
Consume ==
  /\ pc' = [pc EXCEPT ![WorkerSlot] = "idle"]
  /\ call' = [call EXCEPT ![WorkerSlot] = NoCall]
  /\ resp' = [resp EXCEPT ![WorkerSlot] = NoResp]

\* claim_run: client.post(".../claim", json=payload) reaches claim_run
WClaimCall ==
  /\ worker.pc = "claim"
  /\ ClaimSelect(WorkerSlot, WORKER_ID, TENANT_ID, now)

\* claim_run: r.raise_for_status(); return r.json(), and main's test of "claimed"
WClaimResponse ==
  /\ worker.pc = "claim"
  /\ pc[WorkerSlot] = "done" /\ call[WorkerSlot].op = "claim"
  /\ worker' = IF resp[WorkerSlot].code # 200 THEN [worker EXCEPT !.pc = "crashed"]
               ELSE IF resp[WorkerSlot].reason = "claimed:true"
                    THEN [NoWorker EXCEPT !.pc = "log_claimed",
                                          !.run_id = resp[WorkerSlot].run_id]
               ELSE worker
  /\ Consume
  /\ UNCHANGED <<now, runs, lock, logs, versions>>

\* append_log: client.post(".../logs") reaches append_run_log
WLogCall ==
  /\ worker.pc \in LogSteps
  /\ AppendRunLog(WorkerSlot, worker.run_id, LogLevel(worker.pc), LogMessage(worker.pc), "worker")

\* append_log returns, whatever the response was, or after any exception
\* (best effort): the request may not have reached the handler at all.
WLogReturn ==
  /\ worker.pc \in LogSteps
  /\ pc[WorkerSlot] = "done" => call[WorkerSlot].op = "append_log"
  /\ worker' = AfterLog(worker)
  /\ Consume
  /\ UNCHANGED <<now, runs, lock, logs, versions>>

\* time.sleep(0.5), the placeholder for the DAG's execution
WWork ==
  /\ worker.pc = "work"
  /\ worker' = [worker EXCEPT !.pc = "log_finished"]
  /\ UNCHANGED <<now, runs, lock, logs, versions, pc, call, resp>>

\* complete_run treating no status as a conflict: with it a 409 is retried
\* like any error status and GivesUpOn409 fails.
IsConflictNever(code) == FALSE

\* r.status_code == 409, and e.response.status_code == 409 for the
\* HTTPStatusError that raise_for_status would raise
IsConflict(code) == code = 409

\* The retry test without the - 1: with it complete_run sleeps after its last
\* attempt too and CompleteRunTerminates fails.
ShouldRetryAlways(attempt) == attempt < Len(COMPLETE_RETRY_DELAYS)

\* attempt < len(COMPLETE_RETRY_DELAYS) - 1
ShouldRetry(attempt) == attempt < Len(COMPLETE_RETRY_DELAYS) - 1

\* complete_run raises: inside main's try (the SUCCEEDED call) the except
\* branch logs the failure and reports FAILED; the FAILED call's exception
\* leaves main.
Raised(w) ==
  [w EXCEPT !.out = "raised",
            !.pc = IF w.status = "SUCCEEDED" THEN "log_failed" ELSE "crashed"]

\* An attempt failed with an error status other than 409 or with a
\* RequestError or OSError: sleep and continue, or raise; a loop that runs
\* out of delays raises last_exc.
AfterFailure(w) ==
  IF ShouldRetry(w.attempt)
  THEN LET v == [w EXCEPT !.slept = @ + COMPLETE_RETRY_DELAYS[w.attempt + 1],
                          !.attempt = @ + 1]
       IN IF v.attempt < Len(COMPLETE_RETRY_DELAYS) THEN v ELSE Raised(v)
  ELSE Raised(w)

\* complete_run: client.post(".../complete", json=payload) reaches complete_run
WCompleteCall ==
  /\ worker.pc = "complete"
  /\ CompleteRun(WorkerSlot, worker.run_id, worker.status,
                 IF worker.status = "FAILED" THEN "boom" ELSE Null, now)

\* complete_run receives a response: 409 returns None, success returns the
\* body, another status raises HTTPStatusError; then main goes on.
WCompleteResponse ==
  /\ worker.pc = "complete"
  /\ pc[WorkerSlot] = "done" /\ call[WorkerSlot].op = "complete"
  /\ LET code == resp[WorkerSlot].code
         w == [worker EXCEPT !.last = code]
     IN worker' = IF IsConflict(code)
                  THEN [w EXCEPT !.out = "None", !.gave_up = TRUE, !.pc = "claim"]
                  ELSE IF code < 400
                       THEN [w EXCEPT !.out = "json",
                                      !.pc = IF w.status = "SUCCEEDED" THEN "log_completed"
                                             ELSE "claim"]
                  ELSE AfterFailure(w)
  /\ Consume
  /\ UNCHANGED <<now, runs, lock, logs, versions>>

\* The post raises RequestError or OSError: the request never reached the
\* handler, or the handler ran and its response was lost or timed out.
WCompleteError ==
  /\ worker.pc = "complete"
  /\ pc[WorkerSlot] = "done" => call[WorkerSlot].op = "complete"
  /\ worker' = AfterFailure([worker EXCEPT !.last = 0])
  /\ Consume
  /\ UNCHANGED <<now, runs, lock, logs, versions>>

\* One run as create_run inserted it, the worker about to poll, and an
\* operator who cancels and reaps while the clock runs.
InitWorker ==
  /\ now = 0
  /\ runs = [r \in 1 .. MaxRuns |->
               IF r = 1 THEN PipelineRun("t1", "v1", "manual", "p0", 0) ELSE AbsentRow]
  /\ lock = [r \in 1 .. MaxRuns |-> NoProc]
  /\ logs = {}
  /\ versions = [v \in VersionIds |-> IF v = "v1" THEN "APPROVED" ELSE "MISSING"]
  /\ pc = [p \in 1 .. NumProcs |-> "idle"]
  /\ call = [p \in 1 .. NumProcs |-> NoCall]
  /\ resp = [p \in 1 .. NumProcs |-> NoResp]
  /\ worker = [NoWorker EXCEPT !.pc = "claim"]

Operators == Procs \ {WorkerSlot}

NextWorker ==
  \/ Quiet /\ Tick
  \/ Quiet /\ WClaimCall
  \/ Quiet /\ worker.pc = "claim" /\ ClaimUpdate(WorkerSlot)
  \/ WClaimResponse
  \/ Quiet /\ WLogCall
  \/ WLogReturn
  \/ Quiet /\ WWork
  \/ Quiet /\ WCompleteCall
  \/ WCompleteResponse
  \/ WCompleteError
  \/ Quiet /\ \E p \in Operators, r \in RunIds : CancelRead(p, r)
  \/ Quiet /\ \E p \in Operators : CancelUpdate(p)
  \/ Quiet /\ \E p \in Operators, b \in ReapStaleBodies : ReapSelect(p, b[1], b[2])
  \/ Quiet /\ \E p \in Operators : ReapUpdate(p)
  \/ \E p \in Operators : Return(p)

SpecWorker == InitWorker /\ [][NextWorker]_vars

\* A step of complete_run. Each post has a timeout (timeout=15) and each sleep
\* is finite, so a worker inside complete_run always takes its next step.
WCompleteStep == (Quiet /\ WCompleteCall) \/ WCompleteResponse \/ WCompleteError

SpecWorkerFair == SpecWorker /\ WF_vars(WCompleteStep)

\* The worker's request reaches the complete handler in this step.
PostsComplete ==
  pc[WorkerSlot] = "idle" /\ pc'[WorkerSlot] = "done" /\ call'[WorkerSlot].op = "complete"

\* complete_run receives a response with status `code` in this step.
Receives(code) ==
  /\ worker.pc = "complete" /\ pc[WorkerSlot] = "done" /\ pc'[WorkerSlot] = "idle"
  /\ worker'.last = code /\ resp[WorkerSlot].code = code

\* C22: when the worker's complete for a run receives 409, the worker gives
\* the run up: it posts no further complete for it and never appends "Run
\* completed successfully", which only follows a complete that succeeded; the
\* step changes neither run nor log, and the run keeps the terminal status it
\* had from then on.
GivesUpOn409 ==
  [][/\ Receives(409) =>
          /\ worker'.gave_up /\ worker'.out = "None" /\ worker'.pc = "claim"
          /\ runs' = runs /\ logs' = logs
     /\ worker.gave_up =>
          /\ ~PostsComplete
          /\ runs[worker.run_id].status \in Terminal
          /\ runs'[worker.run_id].status = runs[worker.run_id].status
          /\ \A e \in logs' \ logs : e.message # "Run completed successfully"
     /\ (\E e \in logs' \ logs : e.message = "Run completed successfully") =>
          worker.out = "json" /\ worker.last = 200 /\ worker.status = "SUCCEEDED"]_vars

\* C22 witness: the worker has received 409 for the run it claimed, which an
\* operator cancelled while the worker held it; the worker is back at polling
\* and the run is CANCELLED.
GivesUpOn409Witness ==
  /\ worker.gave_up /\ worker.last = 409 /\ worker.pc = "claim"
  /\ runs[worker.run_id].status = "CANCELLED"
  /\ runs[worker.run_id].claimed_by = WORKER_ID
  /\ pc[WorkerSlot] = "idle"

RECURSIVE SumDelays(_)
SumDelays(k) == IF k = 0 THEN 0 ELSE SumDelays(k - 1) + COMPLETE_RETRY_DELAYS[k]

\* C23: complete_run terminates: a worker that entered it leaves it; it makes
\* at most 5 attempts; after a failed attempt that is not the 5th it sleeps
\* that attempt's delay and tries again; it returns the response on the first
\* success and None on the first 409; after the 5th failed attempt it raises
\* without sleeping again.
CompleteRunTerminates ==
  /\ (worker.pc = "complete") ~> (worker.pc # "complete")
  /\ [](/\ worker.attempt \in 0 .. 4
        /\ worker.pc = "complete" => worker.slept = SumDelays(worker.attempt)
        /\ worker.out = "raised" => worker.attempt = 4 /\ worker.slept = SumDelays(4))
  /\ [][/\ PostsComplete => worker.pc = "complete" /\ worker.attempt + 1 <= 5
        /\ Receives(200) => worker'.out = "json" /\ worker'.pc # "complete"
        /\ Receives(409) => worker'.out = "None" /\ worker'.pc # "complete"
        /\ (worker.pc = "complete" /\ worker' # worker
              /\ worker'.out \notin {"json", "None"}) =>
             IF worker.attempt < 4
             THEN /\ worker'.pc = "complete" /\ worker'.attempt = worker.attempt + 1
                  /\ worker'.slept = worker.slept + COMPLETE_RETRY_DELAYS[worker.attempt + 1]
             ELSE /\ worker'.out = "raised" /\ worker'.pc # "complete"
                  /\ worker'.slept = worker.slept /\ worker'.attempt = worker.attempt]_vars

\* C23 witness: complete_run(SUCCEEDED) has raised after its fifth attempt,
\* having slept 0.5 + 1 + 2 + 4 seconds, and main is in its except branch.
CompleteRunTerminatesWitness ==
  /\ worker.out = "raised" /\ worker.pc = "log_failed" /\ worker.status = "SUCCEEDED"
  /\ worker.attempt = 4 /\ worker.slept = 15

\* The positions of main between a successful claim and its complete call.
Executing == {"log_claimed", "log_began", "log_started", "work", "log_finished"}

\* C29: while the worker is executing the run it claimed it keeps the run's
\* heartbeat fresh, so reap_stale never selects a run whose worker is alive
\* and between its claim and its complete call, however long that takes.
LiveWorkerNotReaped ==
  [][\A p \in Procs :
       (pc[p] = "idle" /\ pc'[p] = "reap_update") =>
         \A i \in 1 .. Len(call'[p].sel) :
           ~(worker.pc \in Executing /\ worker.run_id = call'[p].sel[i])]_vars

\* ------------------------------------------------------------- progress
\* A queue of MaxLive runs created one clock value apart; the oldest may
\* reference a pipeline version record that does not exist, the case claim_run
\* answers with 409. Every handler slot serves one worker that polls claim and
\* completes what it was given.
MaxLive == 2

InitLive ==
  /\ now = MaxLive - 1
  /\ \E v \in VersionIds :
       runs = [r \in 1 .. MaxLive |->
                 PipelineRun("t1", IF r = 1 THEN v ELSE "v1", "manual", "p0", r - 1)]
  /\ lock = [r \in 1 .. MaxLive |-> NoProc]
  /\ logs = {}
  /\ versions = [v \in VersionIds |-> IF v = "v1" THEN "APPROVED" ELSE "MISSING"]
  /\ pc = [p \in 1 .. NumProcs |-> "idle"]
  /\ call = [p \in 1 .. NumProcs |-> NoCall]
  /\ resp = [p \in 1 .. NumProcs |-> NoResp]
  /\ worker = NoWorker

\* The worker id of the worker that slot p serves.
WorkerOf(p) == IF p = 1 THEN "w1" ELSE "w2"

\* The runs the worker of slot p was given and has not completed.
Held(p) == {r \in RunIds : runs[r].status = "RUNNING" /\ runs[r].claimed_by = WorkerOf(p)}

LiveClaim(p) == Held(p) = {} /\ ClaimSelect(p, WorkerOf(p), Null, now)

LiveComplete(p) == \E r \in Held(p) : CompleteRun(p, r, "SUCCEEDED", Null, now)

\* One step of the worker of slot p: it polls claim unless it holds a run,
\* completes the run it holds, and reads each response.
LiveStep(p) == LiveClaim(p) \/ ClaimUpdate(p) \/ LiveComplete(p) \/ Return(p)

NextLive ==
  \/ \E p \in Procs : LiveClaim(p)
  \/ \E p \in Procs : ClaimUpdate(p)
  \/ \E p \in Procs : LiveComplete(p)
  \/ \E p \in Procs : Return(p)

\* Workers keep calling claim and a worker that was given a run calls
\* complete: every worker keeps taking steps (weak fairness).
SpecLive == InitLive /\ [][NextLive]_vars /\ \A p \in 1 .. NumProcs : WF_vars(LiveStep(p))

CancelLogOnlyIfCancelled ==
  \A r \in RunIds :
    LET C == {e \in logs : e.run_id = r /\ e.message = "Run cancelled"}
    IN /\ C # {} => runs[r].status = "CANCELLED"
       /\ Cardinality(C) <= 1

\* C32: run timestamps are ordered, NOW() being the start time of the writing
\* transaction: every claimed run has started_at = claimed_at <= heartbeat_at,
\* and every terminal run that was claimed has heartbeat_at <= finished_at.
TimestampsOrdered ==
  \A r \in RunIds :
    runs[r].claimed_by # Null =>
      /\ runs[r].started_at = runs[r].claimed_at
      /\ runs[r].claimed_at <= runs[r].heartbeat_at
      /\ runs[r].status \in Terminal => runs[r].heartbeat_at <= runs[r].finished_at

====
